---- MODULE Spec2Model ----
(***************************************************************************)
(* find-exp-torch.py: gradient descent on one scalar parameter.  Samples   *)
(* x are drawn once, targets y = x^exp are computed once, and a training   *)
(* loop of 200 iterations moves the estimate exp_hat against the gradient  *)
(* of rmse(y, x^exp_hat).                                                  *)
(*                                                                         *)
(* Numbers.  A float is a record [nan, v]: NaN, or the integer v on one of *)
(* two grids.  Samples, outputs, losses and gradients are whole numbers    *)
(* (the value grid); exponents are counted in units of 1/ExpScale (the     *)
(* exponent grid), ExpScale being the denominator of learning_rate, so     *)
(* that learning_rate * gradient is exact on the exponent grid.  Results   *)
(* that fall between grid points are rounded, as float32 rounds; overflow  *)
(* and underflow of float32 are outside the grids.                         *)
(*                                                                         *)
(* torch is the library of the Variable API the script is written for:     *)
(* loss is a one-element tensor, backward adds to exp_hat.grad, and an     *)
(* accumulator not yet written counts as zero.                             *)
(***************************************************************************)
EXTENDS Integers, Sequences, FiniteSets, TLC

VARIABLES
    x,             \* line 19: the sample set
    exp,           \* line 22: the target exponent
    exp_hat,       \* line 23: exp_hat.data, the estimate
    grad,          \* exp_hat.grad.data, the gradient accumulator
    y,             \* line 24: the target outputs
    y_hat,         \* line 35: the predictions of the current iteration
    loss,          \* line 38: the loss of the current iteration
    loss_history,  \* line 27
    exp_history,   \* line 28
    rng,           \* line 31: the next index range(0, 200) yields
    i,             \* line 31: the loop variable
    pc,            \* the statement to run next
    exp_start,     \* history variable: exp_hat when the iteration began
    updates        \* history variable: how often line 51 has run

vars == <<x, exp, exp_hat, grad, y, y_hat, loss, loss_history, exp_history,
          rng, i, pc, exp_start, updates>>

(***************************************************************************)
(* Settings (lines 14-16, 23, 31) and the bounds of the model.             *)
(***************************************************************************)
N == 2                   \* stands for n = 100: the number of samples
MaxX == 3                \* samples are the whole numbers 0..MaxX of [0, 10)
LrNum == 5               \* learning_rate = 5e-6 = LrNum / LrDen
LrDen == 1000000
TargetExp == 2           \* target_exp = 2.0
InitExp == 4             \* FloatTensor([4])
Iterations == 200        \* range(0, 200)

ExpScale == LrDen        \* exponent grid: units of 1/ExpScale
FixScale == 10 * 1000    \* internal fixed point of log and exp
ExpTerms == 12           \* terms of the exponential series

FnLen == 3               \* longest sample sequence given to forward
FnMaxExp == 4            \* largest whole exponent given to forward
FnPairLen == 2           \* longest pair of sequences given to rmse
FnMaxVal == 3            \* largest element of those sequences

(***************************************************************************)
(* Floats.                                                                 *)
(***************************************************************************)
F(v) == [nan |-> FALSE, v |-> v]
NaN == [nan |-> TRUE, v |-> 0]
None == [nan |-> TRUE, v |-> -1]   \* a name not yet bound, never an operand

Add(a, b) == IF a.nan \/ b.nan THEN NaN ELSE F(a.v + b.v)
Sub(a, b) == IF a.nan \/ b.nan THEN NaN ELSE F(a.v - b.v)
Mul(a, b) == IF a.nan \/ b.nan THEN NaN ELSE F(a.v * b.v)

\* floor of the square root of a natural number, by bisection of lo..hi
SqrtIn[n \in Nat, lo \in Nat, hi \in Nat] ==
    IF lo = hi THEN lo
    ELSE IF ((lo + hi + 1) \div 2) * ((lo + hi + 1) \div 2) <= n
         THEN SqrtIn[n, (lo + hi + 1) \div 2, hi]
         ELSE SqrtIn[n, lo, (lo + hi + 1) \div 2 - 1]
ISqrt[n \in Nat] == SqrtIn[n, 0, IF n < 46340 THEN n ELSE 46340]

\* torch.sqrt: NaN for NaN and for negatives
Sqrt(a) == IF a.nan \/ a.v < 0 THEN NaN ELSE F(ISqrt[a.v])

\* ln(b) * FixScale for b = 1..9
LnTab == <<0, 6931, 10986, 13863, 16094, 17918, 19459, 20794, 21972>>

\* exp(t / FixScale) * FixScale by its series, t >= 0: the terms from the
\* k-th on, term being the one before
ExpSeries[t \in Nat, k \in Nat, term \in Nat] ==
    IF k > ExpTerms \/ term = 0 THEN 0
    ELSE term + ExpSeries[t, k + 1, (term * t) \div (k * FixScale)]
ExpFix(t) == ExpSeries[t, 1, FixScale]

\* b^k for whole k >= 0, with 0^0 = 1 as pow has it
IntPow(b, k) == IF k = 0 THEN 1 ELSE b ^ k

\* b^(e/ExpScale) rounded to the value grid, b >= 0 and e >= 0 finite:
\* b^whole * exp(frac * ln b)
PowFinite(b, e) ==
    LET k == e \div ExpScale
        f == e % ExpScale
    IN  IF f = 0 THEN IntPow(b, k)
        ELSE IF b = 0 THEN 0
        ELSE LET t == ((f \div (ExpScale \div FixScale)) * LnTab[b]) \div FixScale
             IN  (IntPow(b, k) * ExpFix(t) + FixScale \div 2) \div FixScale

\* pow of one element: pow(1, anything) = 1 and pow(anything, 0) = 1 even
\* for NaN, any other NaN operand gives NaN
PowElem(b, e) ==
    IF (~b.nan /\ b.v = 1) \/ (~e.nan /\ e.v = 0) THEN F(1)
    ELSE IF b.nan \/ e.nan THEN NaN
    ELSE F(PowFinite(b.v, e.v))

\* sum of a sequence of floats
RECURSIVE SumSeq(_)
SumSeq(s) == IF s = <<>> THEN F(0) ELSE Add(s[1], SumSeq(Tail(s)))

\* torch.mean of a tensor: the sum over its elements by their number
Mean(s) ==
    LET t == SumSeq(s)
    IN  IF t.nan THEN NaN ELSE F(t.v \div Len(s))

\* (y - y_hat).pow(2).sum(): one scalar
SumSq(a, b) == SumSeq([k \in 1..Len(a) |-> Mul(Sub(a[k], b[k]), Sub(a[k], b[k]))])

\* variant of rmse: the mean taken over the elements, before any sum
rmseMean(a, b) ==
    Sqrt(Mean([k \in 1..Len(a) |-> Mul(Sub(a[k], b[k]), Sub(a[k], b[k]))]))

\* line 7: torch.sqrt(torch.mean((y - y_hat).pow(2).sum()))
rmse(a, b) == Sqrt(Mean(<<SumSq(a, b)>>))

\* variant of forward: the product x * e in place of the power
forwardMul(s, e) ==
    [k \in 1..Len(s) |->
        IF e.nan THEN NaN ELSE Mul(s[k], F(e.v \div ExpScale))]

\* line 11: x.pow(e.repeat(x.size(0)))
forward(s, e) ==
    LET es == [k \in 1..Len(s) |-> e]
    IN  [k \in 1..Len(s) |-> PowElem(s[k], es[k])]

\* what loss.backward() adds to exp_hat.grad: d loss / d exp_hat by the chain
\* rule through sqrt, mean, sum, pow(2), the subtraction, pow and repeat.
\* Element k contributes ((y_hat[k] - y[k]) / loss) * y_hat[k] * ln(x[k]).
\* A zero loss gives inf * 0 = NaN in the derivative of sqrt, and a zero
\* sample gives 0 * ln(0) = 0 * -inf = NaN in the derivative of pow.
GradTerm(xk, yk, yhk) ==
    IF yhk.nan \/ xk.v = 0 THEN NaN
    ELSE F(((yhk.v - yk.v) * yhk.v * LnTab[xk.v]) \div FixScale)

Gradient(s, t, th, l) ==
    LET total == SumSeq([k \in 1..Len(s) |-> GradTerm(s[k], t[k], th[k])])
    IN  IF l.nan \/ l.v = 0 \/ total.nan THEN NaN
        ELSE F(total.v \div l.v)

\* learning_rate * g on the exponent grid: (LrNum / LrDen) * g * ExpScale
LrTimes(g) == IF g.nan THEN NaN ELSE F((LrNum * g.v) \div (LrDen \div ExpScale))

(***************************************************************************)
(* The program.  Lines 19-28: the state before the loop.                   *)
(***************************************************************************)
Samples == [1..N -> {F(v) : v \in 0..MaxX}]

Init ==
    /\ x \in Samples
    /\ exp = F(TargetExp * ExpScale)
    /\ exp_hat = F(InitExp * ExpScale)
    /\ grad = F(0)
    /\ y = forward(x, exp)
    /\ y_hat = <<>>
    /\ loss = None
    /\ loss_history = <<>>
    /\ exp_history = <<>>
    /\ rng = 0
    /\ i = -1
    /\ pc = "loop"
    /\ exp_start = None
    /\ updates = 0

\* variant of the loop head: stop as soon as the loss is zero
LoopNextEarlyStop ==
    /\ pc = "loop"
    /\ IF rng < Iterations /\ loss # F(0)
       THEN /\ i' = rng
            /\ rng' = rng + 1
            /\ exp_start' = exp_hat
            /\ pc' = "forward"
       ELSE /\ pc' = "done"
            /\ UNCHANGED <<i, rng, exp_start>>
    /\ UNCHANGED <<x, exp, exp_hat, grad, y, y_hat, loss, loss_history,
                   exp_history, updates>>

\* line 31: for i in range(0, 200); exp_start notes exp_hat for the properties
LoopNext ==
    /\ pc = "loop"
    /\ IF rng < Iterations
       THEN /\ i' = rng
            /\ rng' = rng + 1
            /\ exp_start' = exp_hat
            /\ pc' = "forward"
       ELSE /\ pc' = "done"
            /\ UNCHANGED <<i, rng, exp_start>>
    /\ UNCHANGED <<x, exp, exp_hat, grad, y, y_hat, loss, loss_history,
                   exp_history, updates>>

\* variant of line 35: the prediction is stored over the targets as well
ForwardOverTargets ==
    /\ pc = "forward"
    /\ y_hat' = forward(x, exp_hat)
    /\ y' = y_hat'
    /\ pc' = "loss"
    /\ UNCHANGED <<x, exp, exp_hat, grad, loss, loss_history, exp_history,
                   rng, i, exp_start, updates>>

\* line 35: y_hat = forward(x, exp_hat)
Forward ==
    /\ pc = "forward"
    /\ y_hat' = forward(x, exp_hat)
    /\ pc' = "loss"
    /\ UNCHANGED <<x, exp, exp_hat, grad, y, loss, loss_history, exp_history,
                   rng, i, exp_start, updates>>

\* line 38: loss = rmse(y, y_hat)
Loss ==
    /\ pc = "loss"
    /\ loss' = rmse(y, y_hat)
    /\ pc' = "record_loss"
    /\ UNCHANGED <<x, exp, exp_hat, grad, y, y_hat, loss_history, exp_history,
                   rng, i, exp_start, updates>>

\* variant of line 41: the buffer is replaced, not appended to
RecordLossOverwrite ==
    /\ pc = "record_loss"
    /\ loss_history' = <<loss>>
    /\ pc' = "record_exp"
    /\ UNCHANGED <<x, exp, exp_hat, grad, y, y_hat, loss, exp_history,
                   rng, i, exp_start, updates>>

\* line 41: loss_history.append(loss.data[0])
RecordLoss ==
    /\ pc = "record_loss"
    /\ loss_history' = Append(loss_history, loss)
    /\ pc' = "record_exp"
    /\ UNCHANGED <<x, exp, exp_hat, grad, y, y_hat, loss, exp_history,
                   rng, i, exp_start, updates>>

\* line 42: exp_history.append(y_hat.data[0])
RecordExp ==
    /\ pc = "record_exp"
    /\ exp_history' = Append(exp_history, y_hat[1])
    /\ pc' = "backward"
    /\ UNCHANGED <<x, exp, exp_hat, grad, y, y_hat, loss, loss_history,
                   rng, i, exp_start, updates>>

\* variant of line 45: the step is taken as soon as the gradient is known,
\* and then again by line 51
BackwardAndStep ==
    /\ pc = "backward"
    /\ grad' = Add(grad, Gradient(x, y, y_hat, loss))
    /\ exp_hat' = Sub(exp_hat, LrTimes(grad'))
    /\ pc' = "update"
    /\ UNCHANGED <<x, exp, y, y_hat, loss, loss_history, exp_history,
                   rng, i, exp_start, updates>>

\* line 45: loss.backward() accumulates into exp_hat.grad
Backward ==
    /\ pc = "backward"
    /\ grad' = Add(grad, Gradient(x, y, y_hat, loss))
    /\ pc' = "update"
    /\ UNCHANGED <<x, exp, exp_hat, y, y_hat, loss, loss_history, exp_history,
                   rng, i, exp_start, updates>>

\* variant of line 51: a step up the gradient
UpdateAscent ==
    /\ pc = "update"
    /\ exp_hat' = Add(exp_hat, LrTimes(grad))
    /\ updates' = updates + 1
    /\ pc' = "zero"
    /\ UNCHANGED <<x, exp, grad, y, y_hat, loss, loss_history, exp_history,
                   rng, i, exp_start>>

\* line 51: exp_hat.data -= learning_rate * exp_hat.grad.data; updates counts it
Update ==
    /\ pc = "update"
    /\ exp_hat' = Sub(exp_hat, LrTimes(grad))
    /\ updates' = updates + 1
    /\ pc' = "zero"
    /\ UNCHANGED <<x, exp, grad, y, y_hat, loss, loss_history, exp_history,
                   rng, i, exp_start>>

\* variant of line 52: the accumulator is left as it is
ZeroGradSkipped ==
    /\ pc = "zero"
    /\ pc' = "loop"
    /\ UNCHANGED <<x, exp, exp_hat, grad, y, y_hat, loss, loss_history,
                   exp_history, rng, i, exp_start, updates>>

\* line 52: exp_hat.grad.data.zero_()
ZeroGrad ==
    /\ pc = "zero"
    /\ grad' = F(0)
    /\ pc' = "loop"
    /\ UNCHANGED <<x, exp, exp_hat, y, y_hat, loss, loss_history, exp_history,
                   rng, i, exp_start, updates>>

Next ==
    \/ LoopNext
    \/ Forward
    \/ Loss
    \/ RecordLoss
    \/ RecordExp
    \/ Backward
    \/ Update
    \/ ZeroGrad

Spec == Init /\ [][Next]_vars

(***************************************************************************)
(* forward and rmse on their own: lines 24, 35 and 38 run once, with the   *)
(* samples and both exponents drawn from bounded sets, or line 38 alone    *)
(* on an arbitrary pair of sequences of one length.                        *)
(***************************************************************************)
SeqsUpTo(n, m) == UNION {[1..len -> {F(v) : v \in 0..m}] : len \in 1..n}
WholeExps == {F(k * ExpScale) : k \in 0..FnMaxExp}

FnInit ==
    /\ \/ /\ x \in SeqsUpTo(FnLen, MaxX)
          /\ exp \in WholeExps
          /\ exp_hat \in WholeExps
          /\ y = forward(x, exp)
          /\ y_hat = <<>>
          /\ pc = "fn_start"
       \/ /\ x = <<>>
          /\ exp = None
          /\ exp_hat = None
          /\ y \in SeqsUpTo(FnPairLen, FnMaxVal)
          /\ y_hat \in SeqsUpTo(FnPairLen, FnMaxVal)
          /\ Len(y) = Len(y_hat)
          /\ pc = "fn_fwd"
    /\ grad = F(0)
    /\ loss = None
    /\ loss_history = <<>>
    /\ exp_history = <<>>
    /\ rng = 0
    /\ i = -1
    /\ exp_start = None
    /\ updates = 0

\* line 35 once
FnForward ==
    /\ pc = "fn_start"
    /\ y_hat' = forward(x, exp_hat)
    /\ pc' = "fn_fwd"
    /\ UNCHANGED <<x, exp, exp_hat, grad, y, loss, loss_history, exp_history,
                   rng, i, exp_start, updates>>

\* line 38 once
FnRmse ==
    /\ pc = "fn_fwd"
    /\ loss' = rmse(y, y_hat)
    /\ pc' = "fn_done"
    /\ UNCHANGED <<x, exp, exp_hat, grad, y, y_hat, loss_history, exp_history,
                   rng, i, exp_start, updates>>

FnNext ==
    \/ FnForward
    \/ FnRmse

FnSpec == FnInit /\ [][FnNext]_vars

(***************************************************************************)
(* Properties.                                                             *)
(***************************************************************************)
\* a value-grid number and an exponent-grid number that are the same real
SameReal(val, e) ==
    /\ val.nan = e.nan
    /\ ~val.nan => val.v * ExpScale = e.v

BeforeUpdate == {"forward", "loss", "record_loss", "record_exp", "backward", "update"}

\* C1: the entry line 42 appends to exp_history in an iteration is the value
\* exp_hat had when that iteration began.
RecordedEstimateIsStartValue ==
    pc = "backward" => SameReal(exp_history[Len(exp_history)], exp_start)

\* C2: exp_hat is assigned exactly once per iteration, by line 51 alone and
\* only after y_hat and loss were computed from the value it had at the
\* start of the iteration; from the start of an iteration to its update the
\* value does not change.
UpdatedOncePerIteration ==
    /\ [](/\ pc \in BeforeUpdate => exp_hat = exp_start /\ updates = i
          /\ pc = "zero" => updates = i + 1
          /\ pc \in {"loop", "done"} => updates = rng)
    /\ [][/\ exp_hat' # exp_hat \/ updates' # updates =>
                /\ pc = "update"
                /\ updates' = updates + 1
                /\ y_hat = forward(x, exp_start)
                /\ loss = rmse(y, forward(x, exp_start))
          /\ pc = "update" => updates' = updates + 1]_vars

UpdatedOncePerIterationWitness ==
    /\ pc = "zero"
    /\ i = 1
    /\ updates = 2
    /\ ~exp_hat.nan
    /\ exp_hat # exp_start

\* C3: after the run both buffers hold 200 entries; the entry of iteration k
\* is appended at index k (0-based) and no entry is ever removed, moved or
\* overwritten.
BuffersInIterationOrder ==
    /\ [](/\ pc = "done" => Len(loss_history) = 200 /\ Len(exp_history) = 200
          /\ pc = "record_loss" => Len(loss_history) = i
          /\ pc = "record_exp" => Len(exp_history) = i)
    /\ [][/\ \/ loss_history' = loss_history
             \/ /\ pc = "record_loss"
                /\ loss_history' = Append(loss_history, loss)
          /\ \/ exp_history' = exp_history
             \/ /\ pc = "record_exp"
                /\ exp_history' = Append(exp_history, y_hat[1])
          /\ pc = "record_loss" => Len(loss_history') = i + 1
          /\ pc = "record_exp" => Len(exp_history') = i + 1]_vars

BuffersInIterationOrderWitness ==
    /\ pc = "done"
    /\ Len(loss_history) = 200
    /\ Len(exp_history) = 200
    /\ loss_history[1] # loss_history[200]

\* the number of statements still to run: 8 per iteration not yet begun,
\* and the rest of the current one
Rank ==
    [p \in {"done", "loop", "zero", "update", "backward", "record_exp",
            "record_loss", "loss", "forward"} |->
        CASE p = "done" -> 0
          [] p = "loop" -> 1
          [] p = "zero" -> 2
          [] p = "update" -> 3
          [] p = "backward" -> 4
          [] p = "record_exp" -> 5
          [] p = "record_loss" -> 6
          [] p = "loss" -> 7
          [] p = "forward" -> 8]
Remaining == 8 * (200 - rng) + Rank[pc]

\* C4: the loop ends (a next statement can always run until it has, and each
\* statement run lowers the natural number Remaining), and it ends after
\* the iterations 0, 1, ..., 199, each run once and in this order, whatever
\* the losses and gradients are.
RunsExactly200Iterations ==
    /\ [](/\ pc # "done" => ENABLED Next
          /\ Remaining >= 0
          /\ pc = "done" => rng = 200 /\ i = 199 /\ updates = 200)
    /\ [][/\ Remaining' < Remaining
          /\ i' # i => i' = i + 1 /\ pc = "loop"]_vars

RunsExactly200IterationsWitness ==
    /\ pc = "done"
    /\ i = 199
    /\ updates = 200
    /\ exp_hat.nan

\* C5: exp_hat.grad is zero when backward starts, so what the update applies
\* is the gradient of this iteration's loss alone; it is zero again once
\* line 52 has run and stays so until the next backward.
AccumulatorHoldsOneGradient ==
    /\ pc \in {"loop", "forward", "loss", "record_loss", "record_exp",
               "backward", "done"} => grad = F(0)
    /\ pc \in {"update", "zero"} =>
          grad = Gradient(x, y, forward(x, exp_start),
                          rmse(y, forward(x, exp_start)))

AccumulatorHoldsOneGradientWitness ==
    /\ pc = "backward"
    /\ i = 1
    /\ grad = F(0)
    /\ ~loss.nan
    /\ Gradient(x, y, y_hat, loss) # F(0)

\* C6: no step changes x, y or exp.
DataNeverModified == [][x' = x /\ y' = y /\ exp' = exp]_vars

DataNeverModifiedWitness ==
    /\ pc = "done"
    /\ updates = 200
    /\ y = forward(x, exp)
    /\ y # y_hat

\* C7: line 51 sets exp_hat to its old value minus 5e-6 times the gradient,
\* at the old value, of this iteration's loss; on the exponent grid of
\* millionths that is 5 grid units per unit of gradient, in every iteration.
UpdateIsGradientStep ==
    [][pc = "update" =>
          LET yh == forward(x, exp_hat)
              g == Gradient(x, y, yh, rmse(y, yh))
          IN  /\ exp_hat'.nan = (exp_hat.nan \/ g.nan)
              /\ ~exp_hat'.nan => exp_hat'.v = exp_hat.v - 5 * g.v]_vars

UpdateIsGradientStepWitness ==
    /\ pc = "zero"
    /\ i = 1
    /\ x = <<F(2), F(3)>>
    /\ exp_start = F(3999550)
    /\ exp_hat.v < 3999550

\* the sum of the squared differences of two sequences of whole numbers
RECURSIVE TotalSquares(_, _)
TotalSquares(a, b) ==
    IF a = <<>> THEN 0
    ELSE (a[1].v - b[1].v) * (a[1].v - b[1].v) + TotalSquares(Tail(a), Tail(b))

RECURSIVE Power(_, _)
Power(b, k) == IF k = 0 THEN 1 ELSE b * Power(b, k - 1)

\* C9: forward(x, e) is as long as x and its k-th element is x[k] to the
\* power e (forward((2, 3), 3) = (8, 27)); targets and predictions both
\* come from it, so the loss is zero when the estimate is the target.
ForwardIsElementwisePower ==
    (pc \in {"fn_fwd", "fn_done"} /\ x # <<>>) =>
        /\ Len(y_hat) = Len(x)
        /\ \A k \in 1..Len(x) :
              y_hat[k] = F(Power(x[k].v, exp_hat.v \div ExpScale))
        /\ (x = <<F(2), F(3)>> /\ exp_hat = F(3 * ExpScale)) =>
              y_hat = <<F(8), F(27)>>
        /\ (pc = "fn_done" /\ exp_hat = exp) => loss = F(0)

ForwardIsElementwisePowerWitness ==
    /\ pc = "fn_done"
    /\ x = <<F(2), F(3)>>
    /\ exp_hat = F(3 * ExpScale)
    /\ exp = exp_hat
    /\ y_hat = <<F(8), F(27)>>
    /\ loss = F(0)

====
